---- MODULE Spec2Model ----
(***************************************************************************)
(* loafer/routes.py: CircuitBreaker, StubCircuitBreaker and Route.         *)
(*                                                                         *)
(* One Route bound to one provider, one handler, an optional translator,   *)
(* an optional error handler and a circuit breaker (real or stub).  The    *)
(* event loop runs deliver() coroutines that suspend only while the        *)
(* handler is awaited; everything between two suspension points is one     *)
(* atomic step.  The breaker is a public object handed to the Route by     *)
(* its owner, so its open/close/state are also operations of the model.    *)
(***************************************************************************)
EXTENDS Integers, Sequences, FiniteSets, Bags, TLC

\* ---- bounds of the model ------------------------------------------------
MaxTime == 4          \* time.time() ranges over 1..MaxTime
MaxThreshold == 2     \* failure_threshold ranges over 1..MaxThreshold
ResetTimeout == 1     \* the reset_timeout the breaker is built with
MaxExtraFailures == 1 \* open() calls in a row beyond failure_threshold
MaxCalls == 2         \* deliver() coroutines suspended at the same time

Messages == {"M1", "M2"}
None == "None"
Absent == "absent"    \* an attribute that was never assigned
NoTime == 0           \* _last_failure_time = NoTime (falsy, like 0.0)
NoArg == [content |-> None, metadata |-> None]

\* error kinds
ControlSignals == {"DeleteMessage", "CancelledError"}
HandlerErrors == {"HandlerError", "OtherError"} \cup ControlSignals
TranslatorErrors == {"HandlerError"}  \* raised by translate()
Translated == [content |-> "T1", metadata |-> "meta"]
AttributeError == "AttributeError"
ValueError == "ValueError"
ExceptionSets ==
    { {"HandlerError"},
      {"HandlerError", "ValueError", "DeleteMessage", "CancelledError"} }

HandlerResults == {"True", "False"}
Batches == { <<>>, <<"M1">>, <<"M1", "M2">> }

VARIABLES
    \* CircuitBreaker / StubCircuitBreaker
    stub,               \* TRUE: the Route was built without a circuit breaker
    exceptions,         \* circuit_breaker.exceptions
    failure_threshold,
    reset_timeout,
    failure_count,      \* _failure_count
    last_failure_time,  \* _last_failure_time
    raw_message,        \* _raw_message (written by open)
    breaker_message,    \* _breaker_message (written by close)
    \* Route
    enabled,
    message_translator, \* TRUE: a translator is bound
    custom_error_handler,
    handler_has_stop,   \* the handler is an object exposing stop()
    provider_stopped,
    handler_stopped,
    \* deliver() coroutines suspended in the await of the handler: a bag of
    \* [msg: the raw_message of the call, arg: what the handler was invoked
    \* with, invocations: handler invocations started by the call so far]
    in_flight,
    \* environment and observation
    now,                \* time.time()
    opens,              \* open() calls since construction or the last close()
    last_open_at,       \* time of the last open() call
    probe_at,           \* time of the last half-open reading since close()
    opened_message,     \* the message of the last open() call
    trip_message,       \* the message of the open() call that brought the
                        \* calls since the last close() to failure_threshold
    last                \* the operation that completed in the last step

breaker == <<failure_count, last_failure_time, raw_message, breaker_message>>
config == <<stub, exceptions, failure_threshold, reset_timeout,
            message_translator, custom_error_handler, handler_has_stop>>
tasks == <<in_flight>>
ghost == <<opens, last_open_at, probe_at, opened_message, trip_message>>
vars == <<stub, exceptions, failure_threshold, reset_timeout, failure_count,
          last_failure_time, raw_message, breaker_message, enabled,
          message_translator, custom_error_handler, handler_has_stop,
          provider_stopped, handler_stopped, in_flight, now, opens, last_open_at,
          probe_at, opened_message, trip_message, last>>

\* ---- CircuitBreaker ------------------------------------------------------

\* state with the threshold comparison off by one (<= for <)
state_late(count, lft, t) ==
    IF stub THEN "closed"
    ELSE IF count <= failure_threshold THEN "closed"
    ELSE IF lft # NoTime /\ (t - lft) > reset_timeout THEN "half-open"
    ELSE "open"

\* CircuitBreaker.state / StubCircuitBreaker.state: the value returned when
\* the property is read at time t.
state(count, lft, t) ==
    IF stub THEN "closed"
    ELSE IF count < failure_threshold THEN "closed"
    ELSE IF lft # NoTime /\ (t - lft) > reset_timeout THEN "half-open"
    ELSE "open"

\* state without the refresh of _last_failure_time
state_refresh_none(count, lft, t) == lft

\* CircuitBreaker.state: _last_failure_time after the property was read.
state_refresh(count, lft, t) ==
    IF state(count, lft, t) = "half-open" THEN t ELSE lft

\* open that stores the message only when the call trips the breaker
open_stores_trip(message) ==
    IF stub THEN UNCHANGED breaker
    ELSE /\ failure_count' = failure_count + 1
         /\ last_failure_time' = now
         /\ raw_message' = IF failure_count + 1 = failure_threshold
                           THEN message ELSE raw_message
         /\ UNCHANGED breaker_message

\* CircuitBreaker.open / StubCircuitBreaker.open
open(message) ==
    IF stub THEN UNCHANGED breaker
    ELSE /\ failure_count' = failure_count + 1
         /\ last_failure_time' = now
         /\ raw_message' = message
         /\ UNCHANGED breaker_message

\* close that clears the timestamp but keeps the count
close_keeps_count ==
    IF stub THEN UNCHANGED breaker
    ELSE /\ last_failure_time' = NoTime
         /\ breaker_message' = None
         /\ UNCHANGED <<failure_count, raw_message>>

\* CircuitBreaker.close / StubCircuitBreaker.close
close ==
    IF stub THEN UNCHANGED breaker
    ELSE /\ failure_count' = 0
         /\ last_failure_time' = NoTime
         /\ breaker_message' = None
         /\ UNCHANGED raw_message

\* ---- observation of the last completed operation ------------------------

\* op, with the state it started from; the other fields are filled in by
\* the operation.
Event(op) ==
    [op |-> op, msg |-> None,
     status |-> None,       \* "returned" | "raised"
     result |-> None,       \* value returned or error kind raised
     raised |-> None,       \* error kind raised inside the try of deliver
     source |-> None,       \* "handler" | "translator": what raised or returned
     handler_result |-> None,   \* what the handler returned
     prev_failed |-> None,  \* see failed_before
     invocations |-> 0, arg |-> NoArg,
     batch |-> <<>>, health |-> None, provider |-> FALSE,
     offered |-> <<>>,      \* what provider.fetch_messages() returned
     count |-> failure_count, lft |-> last_failure_time,
     raw |-> raw_message, bmsg |-> breaker_message,
     enabled |-> enabled, at |-> now,
     opens |-> opens, open_at |-> last_open_at, probe |-> probe_at]

\* the raw message of the deliver that ended in the step before by raising
\* on a matched handler error, if there is one
failed_before ==
    IF /\ last.op = "deliver" /\ last.source = "handler"
       /\ last.raised \in exceptions \ ControlSignals
    THEN last.msg ELSE None

\* ---- construction --------------------------------------------------------

\* a stub breaker that keeps a set of exceptions to match
StubRoutes_catching ==
    { [stub |-> TRUE, exceptions |-> {"HandlerError"}, failure_threshold |-> 1,
       reset_timeout |-> ResetTimeout, equipped |-> FALSE] }

\* Route(provider, handler) without circuit_breaker: StubCircuitBreaker.
StubRoutes ==
    { [stub |-> TRUE, exceptions |-> {}, failure_threshold |-> 1,
       reset_timeout |-> ResetTimeout, equipped |-> FALSE] }

\* Route(..., circuit_breaker=CircuitBreaker(exceptions=..., ...)).
\* The breaker is built with a failure_threshold of at least 1 (the default
\* is 5) and a positive reset_timeout (the default is 15).
\* equipped: the Route also has a translator, an error handler and a handler
\* object exposing stop(); otherwise it has a bare callable handler only.
BreakerRoutes ==
    { [stub |-> FALSE, exceptions |-> x, failure_threshold |-> t,
       reset_timeout |-> ResetTimeout, equipped |-> e] :
        x \in ExceptionSets, t \in 1..MaxThreshold, e \in BOOLEAN }

Init ==
    /\ \E route \in StubRoutes \cup BreakerRoutes :
        /\ stub = route.stub
        /\ exceptions = route.exceptions
        /\ failure_threshold = route.failure_threshold
        /\ reset_timeout = route.reset_timeout
        /\ message_translator = route.equipped
        /\ custom_error_handler = route.equipped
        /\ handler_has_stop = route.equipped
    /\ failure_count = 0
    /\ last_failure_time = NoTime
    /\ raw_message = Absent
    /\ breaker_message = Absent
    /\ enabled = TRUE
    /\ provider_stopped = FALSE
    /\ handler_stopped = FALSE
    /\ in_flight = EmptyBag
    /\ now = 1
    /\ opens = 0
    /\ last_open_at = NoTime
    /\ probe_at = NoTime
    /\ opened_message = None
    /\ trip_message = None
    /\ last = [op |-> "init", msg |-> None, status |-> None, result |-> None,
               raised |-> None, source |-> None, handler_result |-> None,
               prev_failed |-> None, invocations |-> 0, arg |-> NoArg,
               batch |-> <<>>, health |-> None, provider |-> FALSE,
               offered |-> <<>>,
               count |-> 0, lft |-> NoTime, raw |-> Absent, bmsg |-> Absent,
               enabled |-> TRUE, at |-> 1,
               opens |-> 0, open_at |-> NoTime, probe |-> NoTime]

\* time.time() advances
Tick ==
    /\ now < MaxTime
    /\ now' = now + 1
    /\ last' = Event("tick")
    /\ UNCHANGED <<config, breaker, enabled, provider_stopped, handler_stopped,
                   tasks, ghost>>

\* ---- the breaker used directly by the owner of the Route ----------------

\* bookkeeping of an open() call
note_open ==
    /\ opens' = opens + 1
    /\ last_open_at' = now
    /\ UNCHANGED probe_at

\* bookkeeping of the message of an open() call
note_message(message) ==
    /\ opened_message' = message
    /\ trip_message' = IF opens + 1 = failure_threshold
                       THEN message ELSE trip_message

\* bookkeeping of a close() call
note_close ==
    /\ opens' = 0
    /\ last_open_at' = NoTime
    /\ probe_at' = NoTime
    /\ trip_message' = None
    /\ UNCHANGED opened_message

\* bookkeeping of a reading of state
note_state ==
    /\ probe_at' = IF state(failure_count, last_failure_time, now) = "half-open"
                   THEN now ELSE probe_at
    /\ UNCHANGED <<opens, last_open_at, opened_message, trip_message>>

\* circuit_breaker.open(message)
BreakerOpen(message) ==
    /\ ~stub
    /\ opens < failure_threshold + MaxExtraFailures
    /\ open(message)
    /\ note_open
    /\ note_message(message)
    /\ last' = [Event("open") EXCEPT !.msg = message]
    /\ UNCHANGED <<config, enabled, provider_stopped, handler_stopped, tasks, now>>

\* circuit_breaker.close()
BreakerClose ==
    /\ ~stub
    /\ close
    /\ note_close
    /\ last' = Event("close")
    /\ UNCHANGED <<config, enabled, provider_stopped, handler_stopped, tasks, now>>

\* circuit_breaker.state
BreakerState ==
    /\ ~stub
    /\ last_failure_time' = state_refresh(failure_count, last_failure_time, now)
    /\ note_state
    /\ last' = [Event("state") EXCEPT
                   !.health = state(failure_count, last_failure_time, now)]
    /\ UNCHANGED <<config, failure_count, raw_message, breaker_message, enabled,
                   provider_stopped, handler_stopped, tasks, now>>

\* ---- Route ---------------------------------------------------------------

\* fetch_messages that replays in half-open but does not back off when open
fetch_result_no_backoff(health, batch) ==
    IF health = "half-open" THEN <<raw_message>> ELSE batch

\* Route.fetch_messages: the sequence returned when the breaker reports
\* health and the provider would return batch.
fetch_result(health, batch) ==
    IF health = "open" THEN <<>>
    ELSE IF health = "half-open" THEN <<raw_message>>
    ELSE batch

\* Route.fetch_messages: whether provider.fetch_messages() is awaited.
fetch_delegates(health) == health \notin {"open", "half-open"}

\* Route.fetch_messages
FetchMessages(batch) ==
    LET health == state(failure_count, last_failure_time, now) IN
    /\ last_failure_time' = state_refresh(failure_count, last_failure_time, now)
    /\ note_state
    /\ last' = [Event("fetch") EXCEPT
                   !.health = health, !.prev_failed = failed_before,
                   !.batch = fetch_result(health, batch),
                   !.provider = fetch_delegates(health),
                   !.offered = IF fetch_delegates(health) THEN batch ELSE <<>>]
    /\ UNCHANGED <<config, failure_count, raw_message, breaker_message, enabled,
                   provider_stopped, handler_stopped, tasks, now>>

\* stop that asks the provider to stop but leaves the Route enabled
Stop_keeps_enabled ==
    /\ provider_stopped' = TRUE
    /\ handler_stopped' = (handler_stopped \/ handler_has_stop)
    /\ last' = Event("stop")
    /\ UNCHANGED <<config, breaker, enabled, tasks, now, ghost>>

\* Route.stop
Stop ==
    /\ enabled' = FALSE
    /\ provider_stopped' = TRUE
    /\ handler_stopped' = (handler_stopped \/ handler_has_stop)
    /\ last' = Event("stop")
    /\ UNCHANGED <<config, breaker, tasks, now, ghost>>

\* Route.error_handler
ErrorHandler(result) ==
    /\ last' = [Event("error_handler") EXCEPT
                   !.status = "returned",
                   !.result = IF custom_error_handler THEN result ELSE "False"]
    /\ UNCHANGED <<config, breaker, enabled, provider_stopped, handler_stopped,
                   tasks, now, ghost>>

\* ---- Route.deliver ---------------------------------------------------------

\* Route.apply_message_translator: what the handler is invoked with.
apply_message_translator(message) ==
    IF ~message_translator
    THEN [content |-> message, metadata |-> "empty"]
    ELSE Translated

\* deliver without the clause for the control signals
is_control_never(kind) == FALSE

\* Route.deliver, line 118: except (DeleteMessage, asyncio.CancelledError)
is_control(kind) == kind \in ControlSignals

\* deliver whose breaker clause catches every error
is_matched_always(kind) == TRUE

\* Route.deliver, line 120: except self.circuit_breaker.exceptions
is_matched(kind) == kind \in exceptions

\* Route.deliver, lines 116-125: the error deliver raises when run_handler
\* raised kind.  The matched clause starts by formatting
\* self.circuit._failure_count for the log; a Route has no attribute
\* `circuit`, so the clause ends there with AttributeError and lines 122-125
\* (open, the reading of state, the inline re-attempt) are never reached.
deliver_raises(kind) ==
    IF is_control(kind) THEN kind
    ELSE IF is_matched(kind) THEN AttributeError
    ELSE kind

\* deliver whose breaker clause logs the error and falls through
deliver_ends_swallowing(kind) ==
    IF is_matched(kind) /\ ~is_control(kind) THEN "returned" ELSE "raised"

\* Route.deliver, lines 116-125: how deliver ends when run_handler raised
\* kind.  The control clause re-raises (line 119), the matched clause raises
\* on line 121, an error no clause catches propagates.
deliver_ends(kind) == "raised"

\* deliver that also refuses while the breaker reports open
not_enabled_or_open ==
    ~enabled \/ state(failure_count, last_failure_time, now) = "open"

\* deliver without the check of enabled
not_enabled_never == FALSE

\* Route.deliver, line 112: if not self.enabled
not_enabled == ~enabled

\* Route.deliver, line 130: return result
deliver_returns(result) == result

\* run_handler that invokes the handler twice
frame_twice(message) ==
    [msg |-> message, arg |-> apply_message_translator(message),
     invocations |-> 2]

\* the coroutine frame of a deliver(message) suspended in its first handler
\* invocation
frame(message) ==
    [msg |-> message, arg |-> apply_message_translator(message),
     invocations |-> 1]

\* Route.deliver, lines 112-114: the Route is not enabled
DeliverDisabled(message) ==
    /\ not_enabled
    /\ last' = [Event("deliver") EXCEPT
                   !.msg = message, !.status = "returned", !.result = "False"]
    /\ UNCHANGED <<config, breaker, enabled, provider_stopped, handler_stopped,
                   tasks, now, ghost>>

\* Route.deliver up to the await of the handler in run_handler
DeliverStart(message) ==
    /\ ~not_enabled
    /\ BagCardinality(in_flight) < MaxCalls
    /\ in_flight' = in_flight (+) SetToBag({frame(message)})
    /\ last' = [Event("run_handler") EXCEPT
                   !.msg = message, !.arg = frame(message).arg,
                   !.invocations = 1]
    /\ UNCHANGED <<config, breaker, enabled, provider_stopped, handler_stopped,
                   now, ghost>>

\* deliver whose breaker clause records a matched translation error
DeliverTranslateFail_recording(message, kind) ==
    /\ ~not_enabled
    /\ message_translator
    /\ opens < failure_threshold + MaxExtraFailures
    /\ IF is_matched(kind) /\ ~is_control(kind)
       THEN open(message) /\ note_open /\ note_message(message)
       ELSE UNCHANGED <<breaker, ghost>>
    /\ last' = [Event("deliver") EXCEPT
                   !.msg = message,
                   !.status = deliver_ends(kind),
                   !.result = kind,
                   !.raised = kind, !.source = "translator"]
    /\ UNCHANGED <<config, enabled, provider_stopped, handler_stopped,
                   tasks, now>>

\* Route.deliver when apply_message_translator raises kind: an error of
\* translate(), or ValueError for empty content
DeliverTranslateFail(message, kind) ==
    /\ ~not_enabled
    /\ message_translator
    /\ last' = [Event("deliver") EXCEPT
                   !.msg = message,
                   !.status = deliver_ends(kind),
                   !.result = deliver_raises(kind),
                   !.raised = kind, !.source = "translator"]
    /\ UNCHANGED <<config, breaker, enabled, provider_stopped, handler_stopped,
                   tasks, now, ghost>>

\* Route.deliver, lines 127-130: the handler of the call f returned result
HandlerReturn(f, result) ==
    /\ BagIn(f, in_flight)
    /\ in_flight' = in_flight (-) SetToBag({f})
    /\ close
    /\ note_close
    /\ last' = [Event("deliver") EXCEPT
                   !.msg = f.msg,
                   !.status = "returned", !.result = deliver_returns(result),
                   !.handler_result = result, !.source = "handler",
                   !.invocations = f.invocations, !.arg = f.arg]
    /\ UNCHANGED <<config, enabled, provider_stopped, handler_stopped, now>>

\* Route.deliver, lines 118-125: the handler of the call f raised kind (a
\* cancellation of the task while it awaits the handler is CancelledError)
HandlerRaise(f, kind) ==
    /\ BagIn(f, in_flight)
    /\ in_flight' = in_flight (-) SetToBag({f})
    /\ last' = [Event("deliver") EXCEPT
                   !.msg = f.msg,
                   !.status = deliver_ends(kind),
                   !.result = deliver_raises(kind),
                   !.raised = kind, !.source = "handler",
                   !.invocations = f.invocations, !.arg = f.arg]
    /\ UNCHANGED <<config, breaker, enabled, provider_stopped, handler_stopped,
                   now, ghost>>

Next ==
    \/ Tick
    \/ \E m \in Messages : BreakerOpen(m)
    \/ BreakerClose
    \/ BreakerState
    \/ \E b \in Batches : FetchMessages(b)
    \/ Stop
    \/ \E r \in HandlerResults : ErrorHandler(r)
    \/ \E m \in Messages : DeliverDisabled(m)
    \/ \E m \in Messages : DeliverStart(m)
    \/ \E m \in Messages, k \in TranslatorErrors \cup {ValueError} :
          DeliverTranslateFail(m, k)
    \/ \E f \in BagToSet(in_flight), r \in HandlerResults : HandlerReturn(f, r)
    \/ \E f \in BagToSet(in_flight), k \in HandlerErrors : HandlerRaise(f, k)

Spec == Init /\ [][Next]_vars

\* One deliver() at a time: while a call is suspended in its handler, only
\* the clock and that handler make a step.
Quiet == in_flight = EmptyBag

NextSeq ==
    \/ Tick
    \/ Quiet /\ \E m \in Messages : BreakerOpen(m)
    \/ Quiet /\ BreakerClose
    \/ Quiet /\ BreakerState
    \/ Quiet /\ \E b \in Batches : FetchMessages(b)
    \/ Quiet /\ Stop
    \/ Quiet /\ \E r \in HandlerResults : ErrorHandler(r)
    \/ Quiet /\ \E m \in Messages : DeliverDisabled(m)
    \/ Quiet /\ \E m \in Messages : DeliverStart(m)
    \/ Quiet /\ \E m \in Messages, k \in TranslatorErrors \cup {ValueError} :
          DeliverTranslateFail(m, k)
    \/ \E f \in BagToSet(in_flight), r \in HandlerResults : HandlerReturn(f, r)
    \/ \E f \in BagToSet(in_flight), k \in HandlerErrors : HandlerRaise(f, k)

SpecSeq == Init /\ [][NextSeq]_vars

\* ---- properties ----------------------------------------------------------

\* a handler invocation of deliver ended in the last step
HandlerEnded == last.op = "deliver" /\ last.source = "handler"

\* the last step read circuit_breaker.state (directly or in fetch_messages)
StateRead == last.op \in {"state", "fetch"}

\* the breaker fields are what they were before the last step
BreakerUntouched ==
    /\ failure_count = last.count
    /\ last_failure_time = last.lft
    /\ raw_message = last.raw
    /\ breaker_message = last.bmsg

\* C1: on a Route with a CircuitBreaker, every handler error of a matched
\* kind is recorded by open(raw_message): the count rises by one, the
\* timestamp is the current time and the stored message is the raw message.
C1_MatchedErrorRecorded ==
    (/\ HandlerEnded
     /\ ~stub
     /\ last.raised \in exceptions \ ControlSignals)
    => /\ failure_count = last.count + 1
       /\ last_failure_time = last.at
       /\ raw_message = last.msg

\* C2: a deliver whose handler raises a matched error, started with the count
\* c below the threshold T and not interleaved with anything, ends by raising
\* the handler's error after T - c invocations, with the count at T and health
\* open.
C2_RetriesUpToThreshold ==
    (/\ HandlerEnded
     /\ ~stub
     /\ last.raised \in exceptions \ ControlSignals
     /\ last.count < failure_threshold)
    => /\ last.status = "raised"
       /\ last.result = last.raised
       /\ last.invocations = failure_threshold - last.count
       /\ failure_count = failure_threshold
       /\ state(failure_count, last_failure_time, now) = "open"

\* C3: a breaker that has received exactly failure_threshold open() calls
\* since it was built or closed, the last one at most reset_timeout ago,
\* reports open; after fewer calls it reports closed.
C3_OpenAtThreshold ==
    (StateRead /\ ~stub)
    => /\ (/\ last.opens = failure_threshold
           /\ last.at - last.open_at <= reset_timeout)
          => last.health = "open"
       /\ last.opens < failure_threshold => last.health = "closed"

C3_Witness ==
    /\ StateRead /\ ~stub
    /\ failure_threshold > 1
    /\ last.opens = failure_threshold
    /\ last.at - last.open_at = reset_timeout
    /\ last.health = "open"

\* C4: with the count at or above the threshold and more than reset_timeout
\* elapsed since _last_failure_time, a reading of state returns half-open and
\* sets _last_failure_time to the current time; every reading made within
\* reset_timeout of that refresh returns open.
C4_HalfOpenOncePerWindow ==
    (StateRead /\ ~stub)
    => /\ (/\ last.count >= failure_threshold
           /\ last.lft # NoTime
           /\ last.at - last.lft > reset_timeout)
          => (last.health = "half-open" /\ last_failure_time = last.at)
       /\ (/\ last.probe # NoTime
           /\ last.at - last.probe <= reset_timeout)
          => last.health = "open"

C4_Witness ==
    /\ StateRead /\ ~stub
    /\ last.probe # NoTime
    /\ last.at - last.probe = reset_timeout
    /\ last.open_at < last.probe
    /\ last.health = "open"

\* C5: fetch_messages returns the empty sequence when health is open and
\* the one-element sequence of the stored message when it is half-open,
\* without calling the provider; the provider is called only when closed.
C5_FetchGatedByHealth ==
    LET tripped == ~stub /\ last.count >= failure_threshold
        elapsed == last.lft # NoTime /\ last.at - last.lft > reset_timeout
    IN last.op = "fetch"
       => /\ (tripped /\ ~elapsed) => (last.batch = <<>> /\ ~last.provider)
          /\ (tripped /\ elapsed) => (last.batch = <<last.raw>> /\ ~last.provider)
          /\ last.provider => ~tripped

C5_Witness ==
    /\ last.op = "fetch"
    /\ last.health = "half-open"
    /\ last.batch = <<"M2">>
    /\ ~last.provider

\* C6: once a deliver of M has ended on matched handler failures (the trip),
\* fetch_messages backs off: called right after, it returns the empty
\* sequence and does not ask the provider for new work.
C6_TripThenBackOff ==
    (last.op = "fetch" /\ ~stub /\ last.prev_failed # None)
    => (last.batch = <<>> /\ ~last.provider)

\* C7: when deliver ends with the handler returning, close() has been
\* applied: the count is 0, health is closed, and deliver returns what the
\* handler returned.
C7_SuccessCloses ==
    (HandlerEnded /\ last.status = "returned")
    => /\ failure_count = 0
       /\ state(failure_count, last_failure_time, now) = "closed"
       /\ last.result = last.handler_result

C7_Witness ==
    /\ HandlerEnded /\ last.status = "returned"
    /\ ~stub
    /\ last.count > failure_threshold
    /\ last.result = "True"

\* C8: a handler error of a kind that is not matched leaves deliver as that
\* same error after one handler invocation, the breaker untouched.
C8_UnmatchedPropagates ==
    (/\ HandlerEnded
     /\ last.raised # None
     /\ last.raised \notin exceptions \cup ControlSignals)
    => /\ last.status = "raised"
       /\ last.result = last.raised
       /\ last.invocations = 1
       /\ BreakerUntouched

C8_Witness ==
    /\ HandlerEnded
    /\ ~stub
    /\ last.raised = "OtherError"
    /\ last.result = "OtherError"
    /\ last.count > 0

\* C9: DeleteMessage and CancelledError raised by the handler leave deliver
\* at once, with no retry and the breaker untouched, also when their kind is
\* listed in the breaker's exceptions.
C9_ControlSignalsBypass ==
    (HandlerEnded /\ last.raised \in ControlSignals)
    => /\ last.status = "raised"
       /\ last.result = last.raised
       /\ last.invocations = 1
       /\ BreakerUntouched

C9_Witness ==
    /\ HandlerEnded
    /\ last.raised \in ControlSignals \cap exceptions
    /\ last.result = last.raised
    /\ last.count > 0

\* C10: deliver called while enabled is false returns False without
\* translating, without starting a handler invocation and without touching
\* the breaker; no handler invocation starts while enabled is false.
C10_DisabledDeliver ==
    /\ (last.op = "deliver" /\ last.source # "handler" /\ ~last.enabled)
       => /\ last.status = "returned"
          /\ last.result = "False"
          /\ last.source = None
          /\ last.invocations = 0
          /\ BreakerUntouched
    /\ last.op = "run_handler" => last.enabled

C10_Witness ==
    /\ last.op = "deliver"
    /\ ~last.enabled
    /\ last.result = "False"
    /\ last.invocations = 0
    /\ in_flight # EmptyBag
    /\ last.count > 0

\* C11: when the translator returns empty content, deliver fails with the
\* translation error (ValueError) and the handler is not invoked; without a
\* translator the handler receives the raw message and empty metadata.
C11_TranslationFailure ==
    /\ (/\ last.op = "deliver"
        /\ last.source = "translator"
        /\ last.raised = ValueError)
       => /\ last.status = "raised"
          /\ last.result = ValueError
          /\ last.invocations = 0
    /\ (last.op = "run_handler" /\ ~message_translator)
       => last.arg = [content |-> last.msg, metadata |-> "empty"]

\* C12: a deliver in which the handler or the translator raised never ends
\* by returning normally: it ends by raising an error to the caller, also
\* when stop() was called while the call was in flight.
C12_NeverSwallows ==
    (last.op = "deliver" /\ last.raised # None)
    => /\ last.status = "raised"
       /\ last.result \in HandlerErrors \cup TranslatorErrors
                            \cup {ValueError, AttributeError}

C12_Witness ==
    /\ HandlerEnded
    /\ ~stub
    /\ last.raised \in exceptions \ ControlSignals
    /\ ~last.enabled
    /\ last.status = "raised"

\* the breaker stores a message for replay
MessageStored == raw_message \notin {Absent, None}

\* C13: close() resets the count to 0 and clears the timestamp and the
\* stored message, whatever the count was, and a close() of a breaker that
\* is already closed leaves it as it is.
C13_CloseClears ==
    (last.op = "close" /\ ~stub)
    => /\ failure_count = 0
       /\ last_failure_time = NoTime
       /\ ~MessageStored
       /\ (last.count = 0 /\ last.lft = NoTime /\ last.bmsg = None)
          => BreakerUntouched

\* C14: in every state the breaker stores a message if and only if its
\* count is above 0.
C14_StoredIffFailures ==
    ~stub => (MessageStored <=> failure_count > 0)

\* C15: stop() sets enabled to false and asks the provider to stop; once
\* stop() has been called enabled is false in every later state, whatever is
\* called afterwards (stop() included), and no handler invocation starts.
C15_StopIsFinal ==
    /\ last.op = "stop" => (~enabled /\ provider_stopped)
    /\ provider_stopped => ~enabled
    /\ last.op = "run_handler" => ~provider_stopped

C15_Witness ==
    /\ last.op = "stop"
    /\ ~last.enabled
    /\ ~enabled /\ provider_stopped
    /\ in_flight # EmptyBag

\* C16: a Route built without a circuit breaker is a plain pass-through:
\* its health is closed in every state, fetch_messages always returns what
\* the provider returned, and every handler error leaves deliver unchanged
\* after one handler invocation.
C16_StubPassThrough ==
    stub
    => /\ state(failure_count, last_failure_time, now) = "closed"
       /\ last.op = "fetch" => (last.provider /\ last.batch = last.offered)
       /\ (HandlerEnded /\ last.raised # None)
          => /\ last.status = "raised"
             /\ last.result = last.raised
             /\ last.invocations = 1

C16_Witness ==
    /\ stub
    /\ HandlerEnded
    /\ last.raised = "HandlerError"
    /\ last.result = "HandlerError"
    /\ last.invocations = 1

\* fetch_messages replayed a message in the last step
Replayed == last.op = "fetch" /\ last.health = "half-open"

StartedOpen ==
    /\ ~stub
    /\ last.count >= failure_threshold
    /\ last.lft # NoTime
    /\ last.at - last.lft <= reset_timeout

\* C18 as claimed: a deliver entered while health is open does not invoke
\* the handler.
C18_NoDeliveryWhileOpen ==
    last.op = "run_handler" => ~StartedOpen

\* C18 as amended: while health is open the Route fetches nothing
\* (fetch_messages returns the empty sequence without asking the provider);
\* deliver does not consult the breaker's health, so a deliver entered while
\* health is open is not refused: only a Route that is not enabled returns
\* from deliver without invoking the handler.
C18_OnlyFetchBacksOff ==
    /\ (last.op = "fetch" /\ StartedOpen)
       => (last.batch = <<>> /\ ~last.provider)
    /\ (/\ last.op = "deliver"
        /\ last.status = "returned"
        /\ last.invocations = 0)
       => ~last.enabled

C18_Witness ==
    /\ last.op = "run_handler"
    /\ StartedOpen
    /\ last.invocations = 1
    /\ in_flight # EmptyBag

\* C19: a deliver call that reaches the handler invokes it at least once
\* and at most failure_threshold times, whatever other deliver calls
\* interleave with it, and the completion of the handler ends the call.
C19_BoundedInvocations ==
    /\ \A f \in BagToSet(in_flight) :
          /\ f.invocations >= 1
          /\ f.invocations <= failure_threshold
    /\ HandlerEnded
       => /\ last.invocations >= 1
          /\ last.invocations <= failure_threshold
          /\ last.status \in {"returned", "raised"}

C19_Witness ==
    /\ HandlerEnded
    /\ ~stub
    /\ failure_threshold > 1
    /\ last.raised \in exceptions \ ControlSignals
    /\ last.count < failure_threshold
    /\ last.invocations = 1
    /\ in_flight # EmptyBag

\* C20: an error raised by translation (by translate() or ValueError for
\* empty content) is never recorded by the breaker and never followed by a
\* re-attempt, also when its kind is in the breaker's exceptions.
C20_TranslationNotRecorded ==
    (last.op = "deliver" /\ last.source = "translator")
    => /\ BreakerUntouched
       /\ opens = last.opens
       /\ last.status = "raised"
       /\ last.invocations = 0

C20_Witness ==
    /\ last.op = "deliver" /\ last.source = "translator"
    /\ ~stub
    /\ last.raised = ValueError
    /\ ValueError \in exceptions
    /\ last.count > 0
    /\ failure_count = last.count
====
